---- MODULE Spec2Model ----
(***************************************************************************)
(* A model of glom/streaming.py: the Iter specifier (a persistent chain of *)
(* lazy stream stages over an iterable target) and the First terminal.     *)
(*                                                                         *)
(* Iter objects and their _iter_stack lists live in a heap (iters, lists), *)
(* so that aliasing between a pipeline and the pipelines chained off it is *)
(* something the model can express.  An execution (the iterator returned   *)
(* by Iter.glomit) is a record holding the raw cursor of the target, the   *)
(* state of the _iterate generator and one iterator state per stage; a     *)
(* next() on it is one atomic step, computed by the recursive Pull.        *)
(***************************************************************************)
EXTENDS Integers, Sequences, FiniteSets, TLC

VARIABLES
    iters,    \* heap of Iter objects: [subspec, stack, sentinel]
    lists,    \* heap of _iter_stack lists, newest stage first
    decl,     \* history: per Iter object, its chaining calls in call order
    last,     \* history: the last chaining call and its outcome
    snap,     \* history: per Iter object, what it was when it was created
    lim,      \* the longest target the environment presents
    exA,      \* an execution (the iterator returned by glomit)
    exB,      \* a second execution of the same pipeline
    res       \* the call and result of the First terminal

vars == <<iters, lists, decl, last, snap, lim, exA, exB, res>>

----------------------------------------------------------------------------
(* Bounds *)

MaxObjs == 3
MaxStages == 1
MaxLen == 3
OrdStages == 2
OrdLen == 2
TwoLen == 2

----------------------------------------------------------------------------
(* Values.  Every Python value of the model is a record of one shape, so   *)
(* that any two of them can be compared.                                   *)

Val(tag, n, items) == [tag |-> tag, n |-> n, items |-> items]
IntV(n) == Val("int", n, <<>>)
BoolV(b) == Val("bool", IF b THEN 1 ELSE 0, <<>>)
NoneV == Val("None", 0, <<>>)
MISSING == Val("_MISSING", 0, <<>>)
SKIP == Val("SKIP", 0, <<>>)
STOP == Val("STOP", 0, <<>>)
ListV(s) == Val("list", 0, s)
TupleV(s) == Val("tuple", 0, s)
SpecV(name) == Val(name, 0, <<>>)
T == SpecV("T")

\* Signals of the iterator protocol and raised exceptions, passed in the
\* same channel as the values a pull returns.
END == Val("StopIteration", 0, <<>>)
Exc(kind) == Val(kind, 0, <<>>)
ExcKinds == {"EvalError", "TypeError", "ValueError", "NotIterable"}
IsExc(v) == v.tag \in ExcKinds
IsVal(v) == v # END /\ ~IsExc(v)

\* bool(v): numbers by value, containers by length; glom's sentinels
\* (make_sentinel) and None are falsy.
Truthy(v) ==
    CASE v.tag \in {"int", "bool"} -> v.n # 0
      [] v.tag \in {"list", "tuple"} -> Len(v.items) > 0
      [] OTHER -> FALSE

\* scope[glom](t, spec, scope) for the specs the model uses:
\*   T       the identity
\*   inc     lambda x: x + 1
\*   ctl     lambda x: SKIP if x == 1 else STOP if x == 2 else x
\*   isZero  lambda x: x == 0
\*   lt2     lambda x: x < 2
\*   failOn1 a spec whose evaluation raises on 1 and gives True otherwise
glom(t, spec) ==
    CASE spec.tag = "T" -> t
      [] spec.tag = "inc" -> IF t.tag = "int" THEN IntV(t.n + 1) ELSE Exc("EvalError")
      [] spec.tag = "ctl" -> IF t = IntV(1) THEN SKIP ELSE IF t = IntV(2) THEN STOP ELSE t
      [] spec.tag = "isZero" -> BoolV(t = IntV(0))
      [] spec.tag = "lt2" -> IF t.tag = "int" THEN BoolV(t.n < 2) ELSE Exc("EvalError")
      [] spec.tag = "failOn1" -> IF t = IntV(1) THEN Exc("EvalError") ELSE BoolV(TRUE)
      [] OTHER -> Exc("EvalError")

\* Check(subspec, default=SKIP) evaluated on t: the default when the
\* evaluation fails or its result is falsy, and otherwise the target t
\* itself, unchanged.
Check(t, subspec) ==
    LET r == glom(t, subspec)
    IN  IF IsExc(r) \/ ~Truthy(r) THEN SKIP ELSE t

----------------------------------------------------------------------------
(* Iter objects and the chaining methods, on a heap H = [iters, lists].    *)

Stage(opname, args) == [op |-> opname, args |-> args]

Heap(is, ls) == [iters |-> is, lists |-> ls]
EmptyHeap == Heap(<<>>, <<>>)

\* A call's outcome: the heap after it, the returned object (0: none) and
\* the exception it raised ("none": it returned).
Ret(H, obj) == [H |-> H, ret |-> obj, exc |-> "none"]
Raise(H, kind) == [H |-> H, ret |-> 0, exc |-> kind]

\* Iter.__init__(subspec, _iter_stack=stk, sentinel=sentinel); stk = 0
\* stands for an absent _iter_stack, which allocates a fresh empty list.
Iter__init__(H, subspec, stk, sentinel) ==
    LET ls == IF stk = 0 THEN Append(H.lists, <<>>) ELSE H.lists
        ref == IF stk = 0 THEN Len(ls) ELSE stk
        obj == [subspec |-> subspec, stack |-> ref, sentinel |-> sentinel]
    IN  Ret(Heap(Append(H.iters, obj), ls), Len(H.iters) + 1)

\* A bug _add_op could have: pushing the stage onto the receiver's own list
\* and handing that same list to the new object.
AddOpInPlace(H, self, opname, args) ==
    LET me == H.iters[self]
        ls == [H.lists EXCEPT ![me.stack] = <<Stage(opname, args)>> \o @]
    IN  Iter__init__(Heap(H.iters, ls), me.subspec, me.stack, STOP)

\* Iter._add_op: a new list [(opname, args, callback)] + self._iter_stack,
\* and a new object of the same type around it; only subspec and
\* _iter_stack are passed on, so the new object's sentinel is the default.
_add_op(H, self, opname, args) ==
    LET me == H.iters[self]
        ls == Append(H.lists, <<Stage(opname, args)>> \o H.lists[me.stack])
    IN  Iter__init__(Heap(H.iters, ls), me.subspec, Len(ls), STOP)

\* itertools.islice([], *args): TypeError on a wrong number of arguments,
\* ValueError on an argument that is not None or an integer in range.
IsIndex(v, lo) == v = NoneV \/ (v.tag = "int" /\ v.n >= lo)
isliceCheck(args) ==
    IF Len(args) = 0 \/ Len(args) > 3 THEN "TypeError"
    ELSE IF \A i \in 1..Len(args) : IsIndex(args[i], IF i = 3 THEN 1 ELSE 0)
         THEN "none" ELSE "ValueError"

map(H, self, subspec) == _add_op(H, self, "map", <<subspec>>)
filter(H, self, subspec) == _add_op(H, self, "filter", <<subspec>>)
chunked(H, self, size, fill) ==
    _add_op(H, self, "chunked", IF fill = MISSING THEN <<size>> ELSE <<size, fill>>)
windowed(H, self, size) == _add_op(H, self, "windowed", <<size>>)
unique(H, self, subspec) == _add_op(H, self, "unique", <<subspec>>)
split(H, self, sep, maxsplit) == _add_op(H, self, "split", <<sep, maxsplit>>)
flatten(H, self) == _add_op(H, self, "flatten", <<>>)
slice(H, self, args) ==
    LET c == isliceCheck(args)
    IN  IF c = "TypeError" THEN Raise(H, "InvalidArguments")
        ELSE IF c = "ValueError" THEN Raise(H, "ValueError")
        ELSE _add_op(H, self, "slice", args)
limit(H, self, count) == _add_op(H, self, "limit", <<count>>)
takewhile(H, self, subspec) == _add_op(H, self, "takewhile", <<subspec>>)
dropwhile(H, self, subspec) == _add_op(H, self, "dropwhile", <<subspec>>)

\* One chaining call, by name (used to replay a chain of calls).
Chain(H, self, c) ==
    CASE c.op = "map" -> map(H, self, c.args[1])
      [] c.op = "filter" -> filter(H, self, c.args[1])
      [] c.op = "chunked" ->
            chunked(H, self, c.args[1], IF Len(c.args) > 1 THEN c.args[2] ELSE MISSING)
      [] c.op = "windowed" -> windowed(H, self, c.args[1])
      [] c.op = "unique" -> unique(H, self, c.args[1])
      [] c.op = "split" -> split(H, self, c.args[1], c.args[2])
      [] c.op = "flatten" -> flatten(H, self)
      [] c.op = "slice" -> slice(H, self, c.args)
      [] c.op = "limit" -> limit(H, self, c.args[1])
      [] c.op = "takewhile" -> takewhile(H, self, c.args[1])
      [] c.op = "dropwhile" -> dropwhile(H, self, c.args[1])

----------------------------------------------------------------------------
(* Targets and executions.                                                 *)

\* A target: a re-iterable sequence of elements, a value whose type has no
\* registered 'iterate' handler, or one whose handler raises when called.
SeqTarget(items) == [kind |-> "seq", tname |-> "list", items |-> items]
Unregistered == [kind |-> "unregistered", tname |-> "int", items |-> <<>>]
Broken == [kind |-> "raises", tname |-> "Broken", items |-> <<>>]

NoErr == [kind |-> "none", tname |-> "", path |-> <<>>, cause |-> ""]

\* A bug the stages could have: keeping an iterator's state on the stage,
\* where a later execution of the pipeline finds what an earlier one left.
LayerShared(stage) ==
    LET ks == { k \in 1..Len(exA.layers) :
                  exA.layers[k].op = stage.op /\ exA.layers[k].args = stage.args }
    IN  IF ks = {}
        THEN [op |-> stage.op, args |-> stage.args, cnt |-> 0, nxt |-> 0,
              flag |-> FALSE, done |-> FALSE, buf |-> <<>>]
        ELSE exA.layers[CHOOSE k \in ks : TRUE]

\* The state of one stage's iterator: the counters of islice (cnt, nxt),
\* the flag of takewhile / dropwhile / split, a finished mark, and a buffer
\* (seen keys, the window, the current group, the current sub-iterable).
Layer(stage) ==
    [op |-> stage.op, args |-> stage.args, cnt |-> 0, nxt |-> 0,
     flag |-> FALSE, done |-> FALSE, buf |-> <<>>]

NoExec ==
    [status |-> "none", pipe |-> 0, subspec |-> T, target |-> SeqTarget(<<>>),
     path |-> <<>>, gen |-> "new", pos |-> 0, pos0 |-> 0, layers |-> <<>>,
     base |-> <<>>, out |-> <<>>, log |-> <<>>, npull |-> 0, err |-> NoErr]

PR(x, r) == [x |-> x, r |-> r]

\* scope[TargetRegistry].get_handler('iterate', target, path=scope[Path]):
\* fails for a target of an unregistered type.
get_handler(target) == IF target.kind = "unregistered" THEN "fail" ELSE "iterate"

RECURSIVE BaseLoop(_)
\* A bug the loop of _iterate could have: treating SKIP like STOP.
BaseLoopSkipStops(x) ==
    IF x.pos >= Len(x.target.items) THEN PR([x EXCEPT !.gen = "done"], END)
    ELSE LET t == x.target.items[x.pos + 1]
             y == [x EXCEPT !.pos = @ + 1]
             yld == IF x.subspec # T THEN glom(t, x.subspec) ELSE t
         IN  IF IsExc(yld) THEN PR([y EXCEPT !.gen = "done"], yld)
             ELSE IF yld = SKIP \/ yld = STOP THEN PR([y EXCEPT !.gen = "done"], END)
             ELSE PR([y EXCEPT !.base = Append(@, yld)], yld)

\* The loop of Iter._iterate, up to its next yield: the subspec is applied
\* unless it is T; SKIP continues, STOP returns.  self.sentinel is not read.
\* base is a history of what the generator has yielded.
BaseLoop(x) ==
    IF x.pos >= Len(x.target.items) THEN PR([x EXCEPT !.gen = "done"], END)
    ELSE LET t == x.target.items[x.pos + 1]
             y == [x EXCEPT !.pos = @ + 1]
             yld == IF x.subspec # T THEN glom(t, x.subspec) ELSE t
         IN  IF IsExc(yld) THEN PR([y EXCEPT !.gen = "done"], yld)
             ELSE IF yld = SKIP THEN BaseLoop(y)
             ELSE IF yld = STOP THEN PR([y EXCEPT !.gen = "done"], END)
             ELSE PR([y EXCEPT !.base = Append(@, yld)], yld)

\* A bug the start of _iterate could have: letting the handler's own
\* exception through instead of wrapping it.
StartUnwrapped(x) ==
    IF get_handler(x.target) = "fail"
    THEN PR([x EXCEPT !.gen = "done",
                      !.err = [kind |-> "NotIterable", tname |-> x.target.tname,
                               path |-> x.path, cause |-> ""]],
            Exc("NotIterable"))
    ELSE IF x.target.kind = "raises"
    THEN PR([x EXCEPT !.gen = "done",
                      !.err = [kind |-> "HandlerError", tname |-> "",
                               path |-> <<>>, cause |-> ""]],
            Exc("TypeError"))
    ELSE BaseLoop([x EXCEPT !.gen = "running"])

\* The first next() on the _iterate generator: resolve the handler, call
\* it (an exception of the call is re-raised with the target's type name,
\* the path and the exception), then run the loop.
Start(x) ==
    IF get_handler(x.target) = "fail"
    THEN PR([x EXCEPT !.gen = "done",
                      !.err = [kind |-> "NotIterable", tname |-> x.target.tname,
                               path |-> x.path, cause |-> ""]],
            Exc("NotIterable"))
    ELSE IF x.target.kind = "raises"
    THEN PR([x EXCEPT !.gen = "done",
                      !.err = [kind |-> "NotIterable", tname |-> x.target.tname,
                               path |-> x.path, cause |-> "HandlerError"]],
            Exc("NotIterable"))
    ELSE BaseLoop([x EXCEPT !.gen = "running"])

\* next() on the generator returned by _iterate.
PullBase(x) ==
    IF x.gen = "done" THEN PR(x, END)
    ELSE IF x.gen = "new" THEN Start(x)
    ELSE BaseLoop(x)

----------------------------------------------------------------------------
(* The stage iterators.  Pull(x, k) is next() on the iterator of stage k   *)
(* (k = 0: the _iterate generator); it returns the execution after the     *)
(* call and a value, END (StopIteration) or a raised exception.            *)

RECURSIVE Pull(_, _)
RECURSIVE FilterLoop(_, _)
RECURSIVE ChunkFill(_, _)
RECURSIVE UniqueLoop(_, _)
RECURSIVE SplitLoop(_, _)
RECURSIVE FlattenLoop(_, _)
RECURSIVE IsliceSkip(_, _)
RECURSIVE DropLoop(_, _)

Finish(x, k, r) == PR([x EXCEPT !.layers[k].done = TRUE], r)

\* imap(lambda t: scope[glom](t, subspec, scope), iterable)
PullMap(x, k) ==
    LET u == Pull(x, k - 1)
    IN  IF IsVal(u.r) THEN PR(u.x, glom(u.r, x.layers[k].args[1])) ELSE u

\* ifilter(lambda t: scope[glom](t, Check(subspec, default=SKIP), scope),
\* iterable): t is kept when the value of the check on it is truthy.
FilterLoop(x, k) ==
    LET u == Pull(x, k - 1)
    IN  IF ~IsVal(u.r) THEN u
        ELSE IF Truthy(Check(u.r, x.layers[k].args[1])) THEN u
        ELSE FilterLoop(u.x, k)

\* list(islice(src_iter, size)) inside chunked_iter: buf collects the chunk.
ChunkFill(x, k) ==
    LET L == x.layers[k]
    IN  IF Len(L.buf) >= L.args[1].n THEN PR(x, END)
        ELSE LET u == Pull(x, k - 1)
             IN  IF ~IsVal(u.r) THEN u
                 ELSE ChunkFill([u.x EXCEPT !.layers[k].buf = Append(@, u.r)], k)

Pad(chunk, size, fill) ==
    [i \in 1..size |-> IF i <= Len(chunk) THEN chunk[i] ELSE fill]

\* boltons chunked_iter(it, size[, fill]): a generator; the size is checked
\* when it first runs; chunks of size elements, the last one shorter, or
\* padded with fill when fill is given; an empty chunk ends it.
PullChunked(x, k) ==
    LET L == x.layers[k]
        size == L.args[1]
    IN  IF L.done THEN PR(x, END)
        ELSE IF size.tag # "int" THEN Finish(x, k, Exc("TypeError"))
        ELSE IF size.n <= 0 THEN Finish(x, k, Exc("ValueError"))
        ELSE LET u == ChunkFill(x, k)
                 chunk == u.x.layers[k].buf
                 y == [u.x EXCEPT !.layers[k].buf = <<>>]
             IN  IF IsExc(u.r) THEN Finish(y, k, u.r)
                 ELSE IF chunk = <<>> THEN Finish(y, k, END)
                 ELSE IF Len(chunk) < size.n /\ Len(L.args) > 1
                      THEN PR(y, ListV(Pad(chunk, size.n, L.args[2])))
                      ELSE PR(y, ListV(chunk))

\* izip(*tees) inside boltons windowed_iter: buf holds the size - 1 elements
\* before the next one; each next() pulls one new element.
PullWindowed(x, k) ==
    LET L == x.layers[k]
    IN  IF L.done \/ L.args[1].n = 0 THEN PR(x, END)
        ELSE LET u == Pull(x, k - 1)
                 w == Append(u.x.layers[k].buf, u.r)
             IN  IF ~IsVal(u.r) THEN Finish(u.x, k, u.r)
                 ELSE PR([u.x EXCEPT !.layers[k].buf = Tail(w)], TupleV(w))

InSeq(v, s) == \E i \in 1..Len(s) : s[i] = v

\* boltons unique_iter(it, key=lambda t: scope[glom](t, subspec, scope)):
\* buf is the seen set; a list is not hashable.
UniqueLoop(x, k) ==
    LET u == Pull(x, k - 1)
        key == glom(u.r, x.layers[k].args[1])
    IN  IF ~IsVal(u.r) THEN Finish(u.x, k, u.r)
        ELSE IF IsExc(key) THEN Finish(u.x, k, key)
        ELSE IF key.tag = "list" THEN Finish(u.x, k, Exc("TypeError"))
        ELSE IF InSeq(key, u.x.layers[k].buf) THEN UniqueLoop(u.x, k)
        ELSE PR([u.x EXCEPT !.layers[k].buf = Append(@, key)], u.r)

PullUnique(x, k) == IF x.layers[k].done THEN PR(x, END) ELSE UniqueLoop(x, k)

\* boltons split_iter(it, sep=sep, maxsplit=maxsplit) for a scalar sep and a
\* maxsplit of None or a positive integer: buf is cur_group, cnt is
\* split_count; after the loop the last group is yielded if it is not
\* empty or sep is not None.
SplitLoop(x, k) ==
    LET u == Pull(x, k - 1)
        L == u.x.layers[k]
        sep == L.args[1]
        maxsplit == L.args[2]
        isSep == IF maxsplit # NoneV /\ L.cnt >= maxsplit.n THEN FALSE ELSE u.r = sep
    IN  IF IsExc(u.r) THEN Finish(u.x, k, u.r)
        ELSE IF u.r = END
        THEN IF L.buf # <<>> \/ sep # NoneV
             THEN Finish([u.x EXCEPT !.layers[k].buf = <<>>], k, ListV(L.buf))
             ELSE Finish(u.x, k, END)
        ELSE IF isSep
        THEN IF sep = NoneV /\ L.buf = <<>> THEN SplitLoop(u.x, k)
             ELSE PR([u.x EXCEPT !.layers[k].cnt = @ + 1, !.layers[k].buf = <<>>],
                     ListV(L.buf))
        ELSE SplitLoop([u.x EXCEPT !.layers[k].buf = Append(@, u.r)], k)

PullSplit(x, k) == IF x.layers[k].done THEN PR(x, END) ELSE SplitLoop(x, k)

\* chain.from_iterable(it): buf is what is left of the current element;
\* flag says there is a current element; an element that is not iterable
\* raises TypeError.
FlattenLoop(x, k) ==
    LET L == x.layers[k]
    IN  IF L.flag /\ L.buf # <<>>
        THEN PR([x EXCEPT !.layers[k].buf = Tail(@)], Head(L.buf))
        ELSE LET u == Pull([x EXCEPT !.layers[k].flag = FALSE], k - 1)
             IN  IF ~IsVal(u.r) THEN Finish(u.x, k, u.r)
                 ELSE IF u.r.tag \notin {"list", "tuple"}
                 THEN Finish(u.x, k, Exc("TypeError"))
                 ELSE FlattenLoop([u.x EXCEPT !.layers[k].flag = TRUE,
                                              !.layers[k].buf = u.r.items], k)

PullFlatten(x, k) == IF x.layers[k].done THEN PR(x, END) ELSE FlattenLoop(x, k)

\* islice's arguments: (stop) or (start, stop[, step]); None is 0 for
\* start, 1 for step and -1 (no stop) for stop.
IsliceStart(args) == IF Len(args) >= 2 /\ args[1] # NoneV THEN args[1].n ELSE 0
IsliceStop(args) ==
    LET a == IF Len(args) = 1 THEN args[1] ELSE args[2]
    IN  IF a = NoneV THEN -1 ELSE a.n
IsliceStep(args) == IF Len(args) = 3 /\ args[3] # NoneV THEN args[3].n ELSE 1

\* islice_next, first loop: drop elements until cnt reaches nxt.
IsliceSkip(x, k) ==
    LET L == x.layers[k]
    IN  IF L.cnt >= L.nxt THEN PR(x, NoneV)
        ELSE LET u == Pull(x, k - 1)
             IN  IF ~IsVal(u.r) THEN u
                 ELSE IsliceSkip([u.x EXCEPT !.layers[k].cnt = @ + 1], k)

\* islice_next: after the skip, stop at stop, else emit one element and
\* advance nxt by step, clamped to stop.  Exhaustion drops the source.
PullIslice(x, k) ==
    IF x.layers[k].done THEN PR(x, END)
    ELSE LET s == IsliceSkip(x, k)
             L == s.x.layers[k]
             stop == IsliceStop(L.args)
         IN  IF s.r # NoneV THEN Finish(s.x, k, s.r)
             ELSE IF stop # -1 /\ L.cnt >= stop THEN Finish(s.x, k, END)
             ELSE LET u == Pull(s.x, k - 1)
                      n2 == L.nxt + IsliceStep(L.args)
                  IN  IF ~IsVal(u.r) THEN Finish(u.x, k, u.r)
                      ELSE PR([u.x EXCEPT !.layers[k].cnt = @ + 1,
                                          !.layers[k].nxt =
                                             IF stop # -1 /\ n2 > stop THEN stop ELSE n2],
                              u.r)

\* itertools.takewhile(lambda t: scope[glom](t, subspec, scope), it): flag
\* is its stop mark.
PullTakewhile(x, k) ==
    IF x.layers[k].flag THEN PR(x, END)
    ELSE LET u == Pull(x, k - 1)
             good == glom(u.r, x.layers[k].args[1])
         IN  IF ~IsVal(u.r) THEN u
             ELSE IF IsExc(good) THEN PR(u.x, good)
             ELSE IF Truthy(good) THEN u
             ELSE PR([u.x EXCEPT !.layers[k].flag = TRUE], END)

\* itertools.dropwhile(lambda t: scope[glom](t, subspec, scope), it): flag
\* is its start mark.
DropLoop(x, k) ==
    LET u == Pull(x, k - 1)
        good == glom(u.r, x.layers[k].args[1])
    IN  IF ~IsVal(u.r) THEN u
        ELSE IF IsExc(good) THEN PR(u.x, good)
        ELSE IF Truthy(good) THEN DropLoop(u.x, k)
        ELSE PR([u.x EXCEPT !.layers[k].flag = TRUE], u.r)

PullDropwhile(x, k) == IF x.layers[k].flag THEN Pull(x, k - 1) ELSE DropLoop(x, k)

Pull(x, k) ==
    IF k = 0 THEN PullBase(x)
    ELSE LET op == x.layers[k].op
         IN  CASE op = "map" -> PullMap(x, k)
               [] op = "filter" -> FilterLoop(x, k)
               [] op = "chunked" -> PullChunked(x, k)
               [] op = "windowed" -> PullWindowed(x, k)
               [] op = "unique" -> PullUnique(x, k)
               [] op = "split" -> PullSplit(x, k)
               [] op = "flatten" -> PullFlatten(x, k)
               [] op \in {"slice", "limit"} -> PullIslice(x, k)
               [] op = "takewhile" -> PullTakewhile(x, k)
               [] op = "dropwhile" -> PullDropwhile(x, k)

----------------------------------------------------------------------------
(* Iter.glomit, the consumer's next(), and the First terminal.             *)

Reverse(s) == [i \in 1..Len(s) |-> s[Len(s) + 1 - i]]

Fail(x, kind) ==
    [x EXCEPT !.status = "error",
              !.err = IF @.kind = "none" THEN [@ EXCEPT !.kind = kind] ELSE @]

RECURSIVE Prime(_, _, _)
\* windowed_iter's priming of its tees: tee i is advanced i times, which
\* pulls size - 1 elements from the stage below while the iterator is being
\* built; running out gives the empty izip([]).
Prime(x, k, n) ==
    IF n = 0 THEN x
    ELSE LET u == Pull(x, k - 1)
         IN  IF IsExc(u.r) THEN Fail(u.x, u.r.tag)
             ELSE IF u.r = END THEN [u.x EXCEPT !.layers[k].done = TRUE]
             ELSE Prime([u.x EXCEPT !.layers[k].buf = Append(@, u.r)], k, n - 1)

\* callback(iterator, scope) for one stage: islice checks its arguments and
\* tee its count when called; windowed_iter primes its tees; every other
\* stage only wraps the iterator below.
Wrap(x, stage) ==
    LET k == Len(x.layers) + 1
        y == [x EXCEPT !.layers = Append(@, Layer(stage))]
    IN  IF x.status = "error" THEN x
        ELSE IF stage.op \in {"slice", "limit"}
        THEN IF isliceCheck(stage.args) # "none"
             THEN Fail(x, isliceCheck(stage.args))
             ELSE [y EXCEPT !.layers[k].nxt = IsliceStart(stage.args)]
        ELSE IF stage.op = "windowed"
        THEN IF stage.args[1].n < 0 THEN Fail(x, "ValueError")
             ELSE IF stage.args[1].n = 0 THEN y
             ELSE Prime(y, k, stage.args[1].n - 1)
        ELSE y

RECURSIVE WrapAll(_, _)
WrapAll(x, stages) ==
    IF stages = <<>> THEN x ELSE WrapAll(Wrap(x, Head(stages)), Tail(stages))

NewExec(H, self, target, path) ==
    [NoExec EXCEPT !.status = "open", !.pipe = self,
                   !.subspec = H.iters[self].subspec,
                   !.target = target, !.path = path]

\* A bug glomit could have: applying the callbacks in the buffer's order,
\* newest stage closest to the source.
GlomitUnreversed(H, self, target, path) ==
    LET x == WrapAll(NewExec(H, self, target, path), H.lists[H.iters[self].stack])
    IN  [x EXCEPT !.pos0 = x.pos]

\* Iter.glomit: the _iterate generator (not started), then each callback of
\* reversed(self._iter_stack) around it.  pos0 records how far the target
\* has been read when glomit returns.
glomit(H, self, target, path) ==
    LET x == WrapAll(NewExec(H, self, target, path),
                     Reverse(H.lists[H.iters[self].stack]))
    IN  [x EXCEPT !.pos0 = x.pos]

\* One next() of the consumer on the iterator glomit returned; log keeps,
\* per delivered output, how far the target had been read at delivery.
Step(x) ==
    LET u == Pull(x, Len(x.layers))
        y == [u.x EXCEPT !.npull = @ + 1]
    IN  IF IsExc(u.r) THEN Fail(y, u.r.tag)
        ELSE IF u.r = END THEN [y EXCEPT !.status = "exhausted"]
        ELSE [y EXCEPT !.out = Append(@, u.r), !.log = Append(@, y.pos)]

RECURSIVE Drain(_)
\* list(iterator): next() until it ends or raises.
Drain(x) == IF x.status # "open" THEN x ELSE Drain(Step(x))

\* The whole run of a pipeline on a target.
Run(H, self, target) == Drain(glomit(H, self, target, <<>>))

RECURSIVE FirstLoop(_, _, _)
\* A bug first could have: collecting the whole sequence before looking.
FirstLoopEager(x, spec, default) ==
    LET d == Drain(x)
        hits == { i \in 1..Len(d.out) : Truthy(glom(d.out[i], spec)) }
    IN  IF d.status = "error" THEN PR(d, Exc(d.err.kind))
        ELSE IF hits = {} THEN PR(d, default)
        ELSE PR(d, d.out[CHOOSE i \in hits : \A j \in hits : i <= j])

\* The key of first applied to the element just pulled: an exception of
\* the evaluation propagates, a truthy key returns the element.
FirstKey(y, key, spec, default) ==
    IF IsExc(key) THEN PR(Fail(y, key.tag), key)
    ELSE IF Truthy(key) THEN PR(y, y.out[Len(y.out)])
    ELSE FirstLoop(y, spec, default)

FirstOn(y, spec, default) ==
    IF y.status # "open" THEN FirstLoop(y, spec, default)
    ELSE FirstKey(y, glom(y.out[Len(y.out)], spec), spec, default)

\* boltons first(iterable, default=default, key=key), that is
\* next(filter(key, iterable), default), with key the evaluation of spec.
FirstLoop(x, spec, default) ==
    IF x.status = "error" THEN PR(x, Exc(x.err.kind))
    ELSE IF x.status = "exhausted" THEN PR(x, default)
    ELSE FirstOn(Step(x), spec, default)

\* glom(target, Iter.first(spec, default)): the tuple (self, First(...)),
\* so the pipeline's iterator is built and handed to First.glomit.
first(H, self, target, spec, default) ==
    FirstLoop(glomit(H, self, target, <<>>), spec, default)

----------------------------------------------------------------------------
(* Replaying a chain of calls: Iter(subspec, sentinel=...).c1(...).c2(...) *)

RECURSIVE ChainAll(_, _, _)
ChainAll(H, self, cs) ==
    IF cs = <<>> THEN Ret(H, self)
    ELSE LET o == Chain(H, self, Head(cs))
         IN  IF o.exc # "none" THEN o ELSE ChainAll(o.H, o.ret, Tail(cs))

Build(subspec, sentinel, cs) ==
    LET o == Iter__init__(EmptyHeap, subspec, 0, sentinel)
    IN  ChainAll(o.H, o.ret, cs)

----------------------------------------------------------------------------
(* The inputs the environment draws from.                                  *)

Elems == {0, 1, 2}
SeqsUpTo(S, n) == UNION { [1..m -> S] : m \in 0..n }
IntSeqs(n) == { [i \in 1..Len(s) |-> IntV(s[i])] : s \in SeqsUpTo(Elems, n) }
Targets(n) == { SeqTarget(s) : s \in IntSeqs(n) } \cup {Unregistered, Broken}
Paths == { <<>>, <<"a">> }

\* Iter(subspec, sentinel=...) as constructed by the environment.
Roots ==
    { [subspec |-> T, sentinel |-> STOP], [subspec |-> T, sentinel |-> IntV(0)],
      [subspec |-> SpecV("ctl"), sentinel |-> STOP],
      [subspec |-> SpecV("ctl"), sentinel |-> IntV(0)],
      [subspec |-> SpecV("inc"), sentinel |-> STOP] }

\* Chaining calls with structurally invalid arguments.
BadCalls ==
    { Stage("slice", <<>>), Stage("slice", <<IntV(-1)>>),
      Stage("slice", <<IntV(0), IntV(1), IntV(1), IntV(1)>>),
      Stage("limit", <<IntV(-1)>>), Stage("chunked", <<IntV(0)>>) }

\* The calls the single-execution specification chains.
ExecCalls ==
    { Stage("map", <<SpecV("inc")>>), Stage("filter", <<SpecV("isZero")>>),
      Stage("filter", <<SpecV("failOn1")>>), Stage("filter", <<T>>),
      Stage("chunked", <<IntV(2)>>), Stage("windowed", <<IntV(2)>>),
      Stage("unique", <<T>>), Stage("flatten", <<>>),
      Stage("limit", <<IntV(1)>>), Stage("limit", <<IntV(0)>>),
      Stage("limit", <<IntV(-1)>>), Stage("chunked", <<IntV(0)>>) }

Chains(S, n) == SeqsUpTo(S, n)

NoRes == [called |-> FALSE, spec |-> T, default |-> NoneV, r |-> NoneV]
NoCall == [op |-> "none", bad |-> FALSE, ret |-> 0, exc |-> "none"]

TheHeap == Heap(iters, lists)
ThePipe == Len(iters)

\* The state after Iter(...) and a chain of calls, before any execution.
Built(root, cs, n) ==
    LET b == Build(root.subspec, root.sentinel, cs)
    IN  /\ b.exc = "none"
        /\ iters = b.H.iters
        /\ lists = b.H.lists
        /\ decl = [i \in 1..Len(b.H.iters) |-> SubSeq(cs, 1, i - 1)]
        /\ last = NoCall
        /\ snap = <<>>
        /\ lim = n
        /\ exA = NoExec
        /\ exB = NoExec
        /\ res = NoRes

----------------------------------------------------------------------------
(* Executing the last pipeline of the heap.                                *)

\* iterator = glom(target, pipeline)
GlomitA ==
    /\ exA.status = "none"
    /\ \E t \in Targets(lim), path \in Paths :
          /\ t.kind = "seq" => path = <<>>
          /\ exA' = glomit(TheHeap, ThePipe, t, path)
    /\ UNCHANGED <<iters, lists, decl, last, snap, lim, exB, res>>

\* next(iterator)
NextA ==
    /\ exA.status = "open"
    /\ ~res.called
    /\ exA' = Step(exA)
    /\ UNCHANGED <<iters, lists, decl, last, snap, lim, exB, res>>

SetFirst(f, spec, default) ==
    /\ exA' = f.x
    /\ res' = [called |-> TRUE, spec |-> spec, default |-> default, r |-> f.r]

\* glom(target, pipeline.first(spec, default))
FirstA ==
    /\ exA.status = "none"
    /\ \E t \in Targets(lim), spec \in {T, SpecV("isZero")},
          default \in {NoneV, IntV(7)} :
          SetFirst(first(TheHeap, ThePipe, t, spec, default), spec, default)
    /\ UNCHANGED <<iters, lists, decl, last, snap, lim, exB>>

Init == \E root \in Roots, cs \in Chains(ExecCalls, MaxStages) :
            Built(root, cs, MaxLen)

Next == GlomitA \/ NextA \/ FirstA

Spec == Init /\ [][Next]_vars

----------------------------------------------------------------------------
(* Claims about one execution (Spec).                                      *)

IsPrefix(s, t) == Len(s) <= Len(t) /\ SubSeq(t, 1, Len(s)) = s
NotSkip(v) == v # SKIP
Least(S) == CHOOSE i \in S : \A j \in S : i <= j
Items == exA.target.items

\* The base sequence as specified: the evaluated raw elements before the
\* first one that evaluates to STOP, without those that evaluate to SKIP.
ExpectedBase(items, subspec) ==
    LET ev == [i \in 1..Len(items) |-> glom(items[i], subspec)]
        stops == { i \in 1..Len(items) : ev[i] = STOP }
        n == IF stops = {} THEN Len(items) ELSE Least(stops) - 1
    IN  SelectSeq(SubSeq(ev, 1, n), NotSkip)

\* C2: with a subspec other than T, what the base generator has yielded is
\* always a prefix of the specified base sequence, and is exactly that
\* sequence once the generator has finished.
C2_BaseSequence ==
    (exA.status # "none" /\ exA.target.kind = "seq" /\ exA.subspec # T) =>
        /\ IsPrefix(exA.base, ExpectedBase(Items, exA.subspec))
        /\ exA.gen = "done" => exA.base = ExpectedBase(Items, exA.subspec)

\* C2 witness: SKIP, then STOP, then a further raw element: nothing is
\* yielded and the last element is never read.
C2_Witness ==
    /\ exA.subspec = SpecV("ctl")
    /\ Items = <<IntV(1), IntV(2), IntV(0)>>
    /\ exA.gen = "done"
    /\ exA.base = <<>>
    /\ exA.pos = 2

\* C3 (as claimed): the base sequence never yields a value equal to the
\* sentinel the pipeline's root was constructed with.
C3_SentinelStops ==
    \A i \in 1..Len(exA.base) : exA.base[i] # iters[1].sentinel

\* C5: first returns the first element of the pipeline's output whose key
\* is truthy, having requested exactly the outputs up to it; with no such
\* element in an output that ends normally it returns the default.
C5_First ==
    res.called =>
        LET full == Run(TheHeap, ThePipe, exA.target)
            hits == { i \in 1..Len(full.out) : Truthy(glom(full.out[i], res.spec)) }
        IN  /\ hits # {} =>
                 /\ res.r = full.out[Least(hits)]
                 /\ exA.npull = Least(hits)
                 /\ exA.out = SubSeq(full.out, 1, Least(hits))
            /\ (hits = {} /\ full.status = "exhausted") =>
                 /\ res.r = res.default
                 /\ exA.status = "exhausted"
                 /\ exA.out = full.out

\* C5 witness: the match is the second output and a raw element after it
\* is left unread.
C5_Witness ==
    /\ res.called
    /\ res.r = IntV(1)
    /\ exA.npull = 2
    /\ exA.status = "open"
    /\ exA.pos < Len(Items)

\* The elements filter is specified to keep: those on which the subspec
\* evaluates, without failing, to a truthy value.
Passes(t, subspec) == ~IsExc(glom(t, subspec)) /\ Truthy(glom(t, subspec))
ExpectedFilter(seq, subspec) ==
    LET keep(t) == Passes(t, subspec) IN SelectSeq(seq, keep)

\* C6 (as claimed): a pipeline that is one filter over the raw elements
\* yields exactly the elements on which the subspec is truthy.
C6_FilterExact ==
    (/\ exA.status = "exhausted"
     /\ ~res.called
     /\ exA.subspec = T
     /\ decl[ThePipe] # <<>>
     /\ decl[ThePipe][1].op = "filter"
     /\ Len(decl[ThePipe]) = 1) =>
        exA.out = ExpectedFilter(Items, decl[ThePipe][1].args[1])

NotIterableTarget == exA.status # "none" /\ exA.target.kind # "seq"

\* Every stage of the executed pipeline was declared with valid arguments.
WellFormed == \A i \in 1..Len(decl[ThePipe]) : decl[ThePipe][i] \notin BadCalls

\* C7 (as claimed): once the consumer has asked a target that cannot be
\* iterated for an output, the execution has failed with NotIterable
\* (stated for pipelines whose stages all have valid arguments).
C7_AlwaysFails ==
    (NotIterableTarget /\ WellFormed /\ ~res.called /\ exA.npull >= 1) =>
        (exA.status = "error" /\ exA.err.kind = "NotIterable")

\* C7 (amended): on a target that cannot be iterated no output is ever
\* yielded; as soon as a pull reaches the base generator the execution
\* fails with NotIterable, carrying the target's type name and the path
\* (and the handler's exception when the handler raised).
C7_NotIterable ==
    NotIterableTarget =>
        /\ exA.out = <<>>
        /\ exA.gen # "new" =>
              /\ exA.status = "error"
              /\ exA.err.kind = "NotIterable"
              /\ exA.err.tname = exA.target.tname
              /\ exA.err.path = exA.path
              /\ exA.target.kind = "raises" => exA.err.cause = "HandlerError"

\* C7 witness: the handler raised below the path <<"a">> and the first
\* next() failed.
C7_Witness ==
    /\ exA.target = Broken
    /\ exA.path = <<"a">>
    /\ exA.npull = 1
    /\ exA.status = "error"
    /\ exA.err.cause = "HandlerError"

OnlyMapFilter == \A k \in 1..Len(exA.layers) : exA.layers[k].op \in {"map", "filter"}

\* The raw positions whose element, alone, gets through the pipeline, up
\* to the first element that evaluates to STOP.
Survivors ==
    LET stops == { i \in 1..Len(Items) :
                      exA.subspec # T /\ glom(Items[i], exA.subspec) = STOP }
        n == IF stops = {} THEN Len(Items) ELSE Least(stops) - 1
    IN  { i \in 1..n :
            Len(Run(TheHeap, ThePipe, SeqTarget(<<Items[i]>>)).out) = 1 }

FirstStop ==
    LET stops == { i \in 1..Len(Items) :
                      exA.subspec # T /\ glom(Items[i], exA.subspec) = STOP }
    IN  IF stops = {} THEN Len(Items) ELSE Least(stops)

\* C9, second part: in a pipeline of map and filter stages only, when the
\* k-th output is delivered the target has been read exactly up to the
\* k-th raw element that gets through.
C9_ExactConsumption ==
    (exA.status # "none" /\ exA.target.kind = "seq" /\ OnlyMapFilter) =>
        \A k \in 1..Len(exA.log) :
            /\ Cardinality({ i \in Survivors : i <= exA.log[k] }) = k
            /\ exA.log[k] \in Survivors

\* C9, third part: the target is never read past the first raw element
\* that evaluates to STOP.
C9_NothingAfterStop ==
    (exA.status # "none" /\ exA.target.kind = "seq") => exA.pos <= FirstStop

\* C9, first part: nothing of the target has been read when glomit
\* returns.
C9_NothingAtGlomit == exA.pos0 = 0

\* C9 (as claimed): the three parts together.
C9_PullDriven == C9_NothingAtGlomit /\ C9_ExactConsumption /\ C9_NothingAfterStop

----------------------------------------------------------------------------
(* Building pipelines (SpecBuild): Iter(...) and the chaining methods,     *)
(* called on any object of the heap.                                       *)

BuildRoots ==
    { [subspec |-> T, sentinel |-> IntV(0)], [subspec |-> SpecV("ctl"), sentinel |-> STOP] }

BuildCalls ==
    { Stage("map", <<SpecV("inc")>>), Stage("filter", <<SpecV("isZero")>>),
      Stage("chunked", <<IntV(2)>>), Stage("windowed", <<IntV(2)>>),
      Stage("unique", <<T>>), Stage("split", <<IntV(0), NoneV>>),
      Stage("flatten", <<>>), Stage("slice", <<IntV(1), NoneV>>),
      Stage("limit", <<IntV(1)>>), Stage("takewhile", <<SpecV("lt2")>>),
      Stage("dropwhile", <<SpecV("lt2")>>),
      Stage("slice", <<>>), Stage("slice", <<IntV(-1)>>),
      Stage("limit", <<IntV(-1)>>), Stage("chunked", <<IntV(0)>>) }

CallsOf(op) == { c \in BuildCalls : c.op = op }

Probes ==
    { SeqTarget(<<IntV(0), IntV(1), IntV(0), IntV(2)>>),
      SeqTarget(<<IntV(1), IntV(0)>>), SeqTarget(<<>>) }

Outcome(d) == [out |-> d.out, status |-> d.status, kind |-> d.err.kind]

\* What an object is at the moment it is created.
Snapshot(H, i) == [obj |-> H.iters[i], stages |-> H.lists[H.iters[i].stack]]

\* The run of object i of the heap, and the run of a pipeline built alone
\* by the calls that made object i.
RunHere(i, t) == Outcome(Run(TheHeap, i, t))
RunAlone(i, t) ==
    LET o == Build(iters[i].subspec, iters[i].sentinel, decl[i])
    IN  Outcome(Run(o.H, o.ret, t))

\* The state after a call with outcome o.
Returned(o, hist, c) ==
    /\ iters' = o.H.iters
    /\ lists' = o.H.lists
    /\ decl' = IF o.ret # 0 THEN Append(decl, hist) ELSE decl
    /\ snap' = IF o.ret # 0 THEN Append(snap, Snapshot(o.H, o.ret)) ELSE snap
    /\ last' = [op |-> c.op, bad |-> c \in BadCalls, ret |-> o.ret, exc |-> o.exc]
    /\ UNCHANGED <<lim, exA, exB, res>>

Called(o, self, c) == Returned(o, Append(decl[self], c), c)

Room == Len(iters) < MaxObjs
Objs == 1..Len(iters)

Construct ==
    /\ Room
    /\ \E r \in BuildRoots :
          Returned(Iter__init__(TheHeap, r.subspec, 0, r.sentinel), <<>>,
                   Stage("Iter", <<>>))

CallMap ==
    Room /\ \E self \in Objs, c \in CallsOf("map") :
               Called(map(TheHeap, self, c.args[1]), self, c)
CallFilter ==
    Room /\ \E self \in Objs, c \in CallsOf("filter") :
               Called(filter(TheHeap, self, c.args[1]), self, c)
CallChunked ==
    Room /\ \E self \in Objs, c \in CallsOf("chunked") :
               Called(chunked(TheHeap, self, c.args[1], MISSING), self, c)
CallWindowed ==
    Room /\ \E self \in Objs, c \in CallsOf("windowed") :
               Called(windowed(TheHeap, self, c.args[1]), self, c)
CallUnique ==
    Room /\ \E self \in Objs, c \in CallsOf("unique") :
               Called(unique(TheHeap, self, c.args[1]), self, c)
CallSplit ==
    Room /\ \E self \in Objs, c \in CallsOf("split") :
               Called(split(TheHeap, self, c.args[1], c.args[2]), self, c)
CallFlatten ==
    Room /\ \E self \in Objs, c \in CallsOf("flatten") :
               Called(flatten(TheHeap, self), self, c)
CallLimit ==
    Room /\ \E self \in Objs, c \in CallsOf("limit") :
               Called(limit(TheHeap, self, c.args[1]), self, c)
CallSlice ==
    Room /\ \E self \in Objs, c \in CallsOf("slice") :
               Called(slice(TheHeap, self, c.args), self, c)
CallTakewhile ==
    Room /\ \E self \in Objs, c \in CallsOf("takewhile") :
               Called(takewhile(TheHeap, self, c.args[1]), self, c)
CallDropwhile ==
    Room /\ \E self \in Objs, c \in CallsOf("dropwhile") :
               Called(dropwhile(TheHeap, self, c.args[1]), self, c)

InitBuild ==
    /\ iters = <<>>
    /\ lists = <<>>
    /\ decl = <<>>
    /\ last = NoCall
    /\ snap = <<>>
    /\ lim = 0
    /\ exA = NoExec
    /\ exB = NoExec
    /\ res = NoRes

NextBuild ==
    \/ Construct
    \/ CallMap
    \/ CallFilter
    \/ CallChunked
    \/ CallWindowed
    \/ CallUnique
    \/ CallSplit
    \/ CallFlatten
    \/ CallLimit
    \/ CallSlice
    \/ CallTakewhile
    \/ CallDropwhile

SpecBuild == InitBuild /\ [][NextBuild]_vars

\* C1: every object of the heap is what it was when it was created, and
\* yields on every probe target what a pipeline built alone by the same
\* calls yields, whatever has been chained off it or off its descendants
\* since; a call that returns hands back a new object, and no two objects
\* share a stage list.
C1_Persistent ==
    /\ \A i \in Objs :
          /\ iters[i] = snap[i].obj
          /\ lists[iters[i].stack] = snap[i].stages
          /\ \A t \in Probes : RunHere(i, t) = RunAlone(i, t)
    /\ \A i, j \in Objs : i # j => iters[i].stack # iters[j].stack
    /\ last.ret # 0 => last.ret = Len(iters)

\* C1 witness: a pipeline with a sentinel of its own, a pipeline chained
\* off it, and a pipeline chained off that one.
C1_Witness ==
    /\ Len(iters) = 3
    /\ iters[1].sentinel = IntV(0)
    /\ Len(decl[2]) = 1
    /\ Len(decl[3]) = 2
    /\ decl[3][1] = decl[2][1]

\* C4 (as claimed): a chaining call with structurally invalid arguments
\* raises InvalidArguments and returns no pipeline.
C4_RejectedAtConstruction ==
    last.bad => (last.exc = "InvalidArguments" /\ last.ret = 0)

----------------------------------------------------------------------------
(* Declaration order (SpecOrder): pipelines of up to OrdStages stages that *)
(* do not commute, executed on targets of up to OrdLen elements.           *)

OrdCalls ==
    { Stage("map", <<SpecV("inc")>>), Stage("filter", <<SpecV("lt2")>>),
      Stage("limit", <<IntV(1)>>), Stage("chunked", <<IntV(2)>>),
      Stage("flatten", <<>>) }

InitOrder ==
    \E root \in Roots, cs \in Chains(OrdCalls, OrdStages) : Built(root, cs, OrdLen)

NextOrder ==
    \/ GlomitA
    \/ NextA

SpecOrder == InitOrder /\ [][NextOrder]_vars

\* What a pipeline of the given calls yields on the sequence s.
Alone(subspec, cs, s) ==
    LET o == Build(subspec, STOP, cs)
    IN  Run(o.H, o.ret, SeqTarget(s)).out

RECURSIVE FoldStages(_, _)
\* opn(...op2(op1(s))...), each stage run as a pipeline of its own.
FoldStages(cs, s) ==
    IF cs = <<>> THEN s
    ELSE FoldStages(Tail(cs), Alone(T, <<Head(cs)>>, s))

Folded(x) ==
    FoldStages(decl[x.pipe], Alone(x.subspec, <<>>, x.target.items))

\* C8: what an execution has yielded is a prefix of the fold of the stages,
\* in the order they were declared, over the base sequence, and the whole
\* of it once the execution has ended without an error.
C8_DeclarationOrder ==
    /\ exA.status \in {"open", "exhausted"} => IsPrefix(exA.out, Folded(exA))
    /\ exA.status = "exhausted" => exA.out = Folded(exA)

\* C8 witness: filter then limit, where limit then filter would yield
\* nothing.
C8_Witness ==
    /\ exA.status = "exhausted"
    /\ decl[exA.pipe] = <<Stage("filter", <<SpecV("lt2")>>), Stage("limit", <<IntV(1)>>)>>
    /\ exA.subspec = T
    /\ exA.target.items = <<IntV(2), IntV(1)>>
    /\ exA.out = <<IntV(1)>>

----------------------------------------------------------------------------
(* Two executions of one pipeline (SpecTwo), pulled in any interleaving.   *)

TwoCalls ==
    { Stage("unique", <<T>>), Stage("chunked", <<IntV(2)>>),
      Stage("windowed", <<IntV(2)>>), Stage("slice", <<IntV(1), NoneV>>),
      Stage("takewhile", <<SpecV("lt2")>>), Stage("dropwhile", <<SpecV("lt2")>>) }

\* iterator2 = glom(target2, pipeline)
GlomitB ==
    /\ exB.status = "none"
    /\ \E t \in Targets(lim) : exB' = glomit(TheHeap, ThePipe, t, <<>>)
    /\ UNCHANGED <<iters, lists, decl, last, snap, lim, exA, res>>

\* next(iterator2)
NextB ==
    /\ exB.status = "open"
    /\ exB' = Step(exB)
    /\ UNCHANGED <<iters, lists, decl, last, snap, lim, exA, res>>

InitTwo ==
    \E c \in TwoCalls : Built([subspec |-> T, sentinel |-> STOP], <<c>>, TwoLen)

NextTwo ==
    \/ GlomitA
    \/ NextA
    \/ GlomitB
    \/ NextB

SpecTwo == InitTwo /\ [][NextTwo]_vars

RECURSIVE StepN(_, _)
StepN(x, n) == IF n = 0 THEN x ELSE StepN(Step(x), n - 1)

\* The execution x would be if it were the only one: the same pipeline on
\* the same target, pulled as many times.
Solo(x) == StepN(glomit(TheHeap, x.pipe, x.target, x.path), x.npull)

====
